---- MODULE Spec2Model ----
(***************************************************************************)
(* URLTrackerBot (src/b.py, src/f.py): the registry of tracked targets,    *)
(* the registry store (data.json), the APScheduler job table and the       *)
(* in-flight executions of check_updates; the loop that sends a long text   *)
(* in chunks (send_split_messages / split_send); and the delivery of a     *)
(* change by send_updates.                                                 *)
(*                                                                         *)
(* The two source files are two variants of the same bot.  The variable    *)
(* `variant` says which one runs; it is chosen at construction and never   *)
(* changes.  Where the variants differ the action says so.                 *)
(***************************************************************************)
EXTENDS Integers, Sequences, FiniteSets, Bags, TLC

VARIABLES
    variant,    \* "b" (src/b.py) or "f" (src/f.py)
    scope,      \* which requests and failures the environment produces
    reg,        \* self.data['users'] / self.data.data['tracked']: (owner, url) -> entry
    store,      \* data.json: the registry as last written by save_data
    jobs,       \* the scheduler's job table: a bag of jobs (key, trigger)
    fir,        \* per key, the executions of check_updates in flight
    lastOp,     \* the last operation that ran and what it reported
    text,       \* send_split_messages: the text to send, a sequence of characters
    chunks,     \* the messages app.send_message has delivered, in order
    offset,     \* the loop variable i of range(0, len(text), MAX_MESSAGE_LENGTH)
    raised,     \* whether app.send_message raised and ended the loop
    notif,      \* send_updates: per firing, how far it is and what it delivered
    updateFile, \* update.txt / updates.txt: 0 when absent, else whose summary it holds
    race        \* a toggle and a firing of one target at work on its entry and data.json

botVars == <<variant, scope, reg, store, jobs, fir, lastOp>>
splitVars == <<text, chunks, offset, raised>>
notifVars == <<notif, updateFile>>
sideVars == <<splitVars, notifVars, race>>
vars ==
    <<variant, scope, reg, store, jobs, fir, lastOp, text, chunks, offset, raised,
      notif, updateFile, race>>

(***************************************************************************)
(* Bounds of the model.                                                    *)
(***************************************************************************)
\* IntervalTrigger(minutes=i) is built from datetime.timedelta, which raises
\* OverflowError above its maximum; MaxMinutes stands for that maximum, so the
\* requests range over 1..MaxMinutes (accepted) and MaxMinutes+1 (overflow).
MaxMinutes == 2
\* the page contents a fetch can return, as their SHA-256 digests 1..NumDigests
NumDigests == 2
\* MAX_MESSAGE_LENGTH = 4096 in the source; the chunking is modelled with a
\* limit small enough to enumerate texts of several chunks
MAX_MESSAGE_LENGTH == 2
\* the longest text handed to send_split_messages
MaxTextLen == 5
\* the most resources extract_resources finds on a page
MaxResources == 2

(***************************************************************************)
(* Program constants.                                                      *)
(***************************************************************************)
\* 'hash': '' of a freshly tracked target; a hexdigest is never empty
EmptyHash == 0
\* add_job is called without max_instances: APScheduler's default of 1
MaxInstances == 1
\* CronTrigger(hour='6-22')
WindowFirstHour == 6
WindowLastHour == 22

Variants == {"b", "f"}

\* The behaviours are explored in two scopes, fixed at construction:
\*   "faults": one target (addressed with and without its scheme), replies and
\*             saves that can fail, and interval requests that overflow;
\*   "pair":   two targets of one owner, with no failing reply or save;
\*   "requests": one target with a scheme other than http, interval requests
\*             that are zero, negative or overflow, callers that are not
\*             authorized, and timer ticks at every modelled time of day;
\*   "ports":  one target given as host:port.
Scopes == {"faults", "pair", "requests", "ports"}
Owners == {1}
Digests == 1..NumDigests
RequestedIntervals == 1..(MaxMinutes + 1)
\* int(interval) also accepts "0" and, in b.py, "-1"
InvalidIntervals == {-1, 0}
IntervalsIn(sc) ==
    CASE sc = "faults" -> RequestedIntervals
      [] sc \in {"pair", "ports"} -> 1..MaxMinutes
      [] sc = "requests" -> InvalidIntervals \cup {MaxMinutes, MaxMinutes + 1}

\* is_authorized(caller): the chat is authorized or the user is owner / sudo
AuthIn(sc) == IF sc = "requests" THEN BOOLEAN ELSE {TRUE}

\* the users who send /list and /documents in a scope
ReadersIn(sc) == IF sc \in {"requests", "ports"} THEN Owners ELSE {}

\* Local times of day <<hour, minute, second>> at which the interval part of
\* a trigger can tick; the second is not 0 for a job built at such a second.
Noon == <<12, 0, 0>>
NoTime == <<0, 0, 0>>
TickTimes ==
    { <<5, 0, 0>>, <<6, 0, 0>>, Noon, <<12, 0, 17>>, <<12, 30, 0>>,
      <<22, 0, 0>>, <<22, 30, 0>>, <<23, 5, 0>> }
TimesIn(sc) == IF sc = "requests" THEN TickTimes ELSE {Noon}

\* CronTrigger(hour='6-22'): the fields below the hour default to their
\* minimum, so it fires at HH:00:00 for HH in 6..22
CronFires(t) ==
    t[1] \in WindowFirstHour..WindowLastHour /\ t[2] = 0 /\ t[3] = 0

(***************************************************************************)
(* URLs are sequences of tokens; ":" is the token urlparse splits on.      *)
(***************************************************************************)
\* the tokens that start with a letter and are made of scheme characters
\* only (letters, digits, + - .): a host name is one, "//" and "80" are not
SchemeTokens == {"http", "https", "ftp", "a", "b"}

\* "_" is a character of a path or host as any other; it is a token of its
\* own because the callback data of the night-mode button is split on it
RawUrls ==
    { <<"a">>, <<"http", ":", "//", "a">>, <<"http", ":", "//", "a", "_", "b">>,
      <<"ftp", ":", "//", "a">>, <<"a", ":", "80">> }

\* the url arguments users send in a scope
UrlsIn(sc) ==
    CASE sc = "faults" -> { <<"a">>, <<"http", ":", "//", "a">> }
      [] sc = "pair" ->
            { <<"a">>, <<"http", ":", "//", "a">>, <<"http", ":", "//", "a", "_", "b">> }
      [] sc = "requests" -> { <<"ftp", ":", "//", "a">> }
      [] sc = "ports" -> { <<"a", ":", "80">> }

\* urlparse(url).scheme: the tokens before the first ":" when they are all
\* scheme characters, else empty
Scheme(u) ==
    LET colons == {i \in 1..Len(u) : u[i] = ":"}
    IN  IF colons = {} THEN <<>>
        ELSE LET i == CHOOSE c \in colons : \A d \in colons : c <= d
             IN  IF i > 1 /\ \A j \in 1..(i - 1) : u[j] \in SchemeTokens
                 THEN SubSeq(u, 1, i - 1)
                 ELSE <<>>

\* track_handler: if not parsed.scheme: url = f"http://{url}"
Normalize(u) == IF Scheme(u) = <<>> THEN <<"http", ":", "//">> \o u ELSE u

NormUrls == {Normalize(u) : u \in RawUrls}

\* the keys a job can have: args=[url, user_id], id=f"{user_id}_{url}"
Keys == Owners \X NormUrls
NoKey == <<0, <<>>>>

\* track_handler: callback_data=f"nightmode_{user_id}_{url}"
CallbackData(k) == <<"nightmode", "_", ToString(k[1]), "_">> \o k[2]

\* str.split('_'): the fields of s between the separators
RECURSIVE SplitOn(_, _)
SplitOn(s, sep) ==
    LET at == {i \in 1..Len(s) : s[i] = sep}
    IN  IF at = {} THEN <<s>>
        ELSE LET i == CHOOSE c \in at : \A d \in at : c <= d
             IN  <<SubSeq(s, 1, i - 1)>> \o SplitOn(SubSeq(s, i + 1, Len(s)), sep)

\* int(data[1]) for the decimal string of an owner id
ParseOwner(field) ==
    IF \E o \in Owners : <<ToString(o)>> = field
    THEN CHOOSE o \in Owners : <<ToString(o)>> = field
    ELSE 0

\* nightmode_handler: data = query.data.split('_'); user_id = int(data[1]);
\* url = data[2]
ParseCallback(data) ==
    LET fields == SplitOn(data, "_")
    IN  <<ParseOwner(fields[2]), fields[3]>>

\* the buttons that can be pressed in a scope: a button stays in the chat
\* after its target was untracked or the process restarted
ButtonsIn(sc) == {<<o, Normalize(u)>> : o \in Owners, u \in UrlsIn(sc)}

(***************************************************************************)
(* Dictionaries.                                                           *)
(***************************************************************************)
EmptyMap == [k \in {} |-> 0]
Put(m, k, v) == [x \in DOMAIN m \cup {k} |-> IF x = k THEN v ELSE m[x]]
Del(m, k) == [x \in DOMAIN m \ {k} |-> m[x]]

\* IntervalTrigger(minutes=i), optionally inside AndTrigger([.., CronTrigger(hour='6-22')])
Trigger(i, night) == [interval |-> i, window |-> night]

\* timedelta(minutes=i) raises OverflowError
TriggerOverflows(i) == i > MaxMinutes

\* what an operation reported: its outcome, the digest a firing fetched,
\* whether a summary reached the owner (sent) and how many times the firing
\* invoked send_updates (calls)
Report(op, k, res, d, sent, calls, t, auth) ==
    [op |-> op, key |-> k, res |-> res, digest |-> d, sent |-> sent,
     calls |-> calls, time |-> t, auth |-> auth, arg |-> NoKey]
\* the same report with the argument of the request as the user sent it: the
\* (owner, url) of /track before normalization, the target a pressed button
\* was issued for
WithArg(r, a) == [r EXCEPT !.arg = a]
Fired(op, k, res, d, sent, calls) == Report(op, k, res, d, sent, calls, NoTime, TRUE)
Op(op, k, res) == Fired(op, k, res, EmptyHash, FALSE, 0)
\* a request, with whether its caller was authorized
Req(op, k, res, auth) == Report(op, k, res, EmptyHash, FALSE, 0, NoTime, auth)
\* a timer tick at local time t
Tick(k, res, t) == Report("job_due", k, res, EmptyHash, FALSE, 0, t, TRUE)

\* what the reply and the save at the end of a handler can do
IoOutcomes == {"ok", "reply_failed", "save_failed"}
IoIn(sc) == IF sc = "faults" THEN IoOutcomes ELSE {"ok"}
SavedIn(sc) == IF sc = "faults" THEN BOOLEAN ELSE {TRUE}

\* list_handler: the urls listed for an owner
ListTargets(o) == {k[2] : k \in {x \in DOMAIN reg : x[1] = o}}

(***************************************************************************)
(* State after construction and run(): no data.json yet, scheduler started *)
(***************************************************************************)
Init ==
    /\ variant \in Variants
    /\ scope \in Scopes
    /\ reg = EmptyMap
    /\ store = EmptyMap
    /\ jobs = EmptyBag
    /\ fir = [k \in Keys |-> <<>>]
    /\ lastOp = Op("run", NoKey, "ok")
    /\ text = <<>>
    /\ chunks = <<>>
    /\ offset = 0
    /\ raised = FALSE
    /\ notif = <<>>
    /\ updateFile = 0
    /\ race = <<>>

(***************************************************************************)
(* The scheduler's job table (MemoryJobStore): a bag of jobs, each with    *)
(* the key it was added under and its trigger.                             *)
(***************************************************************************)
Job(k, t) == [key |-> k, trigger |-> t]

JobsOf(js, k) == {j \in BagToSet(js) : j.key = k}

\* how many jobs the scheduler holds for a key
JobCount(js, k) ==
    LET RECURSIVE Sum(_)
        Sum(S) == IF S = {} THEN 0
                  ELSE LET j == CHOOSE x \in S : TRUE
                       IN  CopiesIn(j, js) + Sum(S \ {j})
    IN  Sum(JobsOf(js, k))

\* scheduler.get_job(id) is not None
HasJob(js, k) == JobsOf(js, k) # {}

WithoutKey(js, k) ==
    LET keep == {j \in BagToSet(js) : j.key # k}
    IN  [j \in keep |-> js[j]]

\* a bug: the new job is added next to the one already held
AddJob_append(js, k, t) == js (+) SetToBag({Job(k, t)})

\* scheduler.add_job(..., id=key, replace_existing=True): a job already held
\* under the id is replaced by the new one
AddJob(js, k, t) == WithoutKey(js, k) (+) SetToBag({Job(k, t)})

\* a bug: the job is left in the table
RemoveJob_noop(js, k) == js

\* scheduler.remove_job(id); the caller has checked HasJob (else JobLookupError)
RemoveJob(js, k) == WithoutKey(js, k)

\* scheduler.reschedule_job(id, trigger=t): the job keeps its id, new trigger
RescheduleJob(js, k, t) == WithoutKey(js, k) (+) SetToBag({Job(k, t)})

(***************************************************************************)
(* Command handlers.  The display name is stored and echoed only, so it is *)
(* left out of the entry.                                                  *)
(***************************************************************************)
Entry(i, h, nm) == [interval |-> i, hash |-> h, nightmode |-> nm]

\* /track <name> <url> <interval> [night]
\* whether the interval argument gets past the parsing of the command:
\* b.py takes what int() accepts, f.py what the regex (\d+) matches
IntervalParses(v, i) == v = "b" \/ i >= 0

track_handler(o, u, i, night, io, auth) ==
    LET url == Normalize(u)
        k == <<o, url>>
        reg1 == Put(reg, k, Entry(i, EmptyHash, night))
    IN  /\ variant = "b" => ~night        \* b.py: 'nightmode': False
        /\ IF ~auth
           THEN \* b.py replies "not authorized"; f.py filters the message out
                /\ UNCHANGED <<reg, jobs, store>>
                /\ lastOp' = WithArg(Req("track", NoKey, "denied", FALSE), <<o, u>>)
           ELSE IF ~IntervalParses(variant, i)
           THEN \* f.py: the regex does not match, "Invalid format"
                /\ UNCHANGED <<reg, jobs, store>>
                /\ lastOp' = WithArg(Op("track", NoKey, "invalid"), <<o, u>>)
           ELSE /\ reg' = reg1
                /\ IF TriggerOverflows(i)
                   THEN \* IntervalTrigger raises after the entry was stored
                        /\ jobs' = jobs
                        /\ store' = store
                        /\ lastOp' = WithArg(Op("track", k, "rejected"), <<o, u>>)
                   ELSE /\ jobs' = AddJob(jobs, k, Trigger(i, night))
                        /\ IF io = "ok"
                           THEN /\ store' = reg1
                                /\ lastOp' = WithArg(Op("track", k, "ok"), <<o, u>>)
                           ELSE \* the reply or save_data raised
                                /\ store' = store
                                /\ lastOp' = WithArg(Op("track", k, "error"), <<o, u>>)
        /\ UNCHANGED <<sideVars, variant, scope, fir>>

\* /untrack <url>: the argument is looked up as given
untrack_handler(o, u, io, auth) ==
    LET k == <<o, u>>
    IN  /\ IF ~auth
           THEN /\ UNCHANGED <<jobs, reg, store>>
                /\ lastOp' = Req("untrack", NoKey, "denied", FALSE)
           ELSE IF k \in DOMAIN reg
           THEN IF HasJob(jobs, k)
                THEN /\ jobs' = RemoveJob(jobs, k)
                     /\ reg' = Del(reg, k)
                     /\ store' = IF io = "save_failed" THEN store ELSE Del(reg, k)
                     /\ lastOp' = Op("untrack", k,
                                     IF io = "ok" THEN "ok" ELSE "error")
                ELSE \* remove_job raises JobLookupError before the del
                     /\ UNCHANGED <<jobs, reg, store>>
                     /\ lastOp' = Op("untrack", k, "error")
           ELSE /\ UNCHANGED <<jobs, reg, store>>
                /\ lastOp' = Op("untrack", k, "not_found")
        /\ UNCHANGED <<sideVars, variant, scope, fir>>

\* a bug: the rescheduled trigger always carries the hour window
ToggledTrigger_always_window(interval, current) == Trigger(interval, TRUE)

\* nightmode_handler: IntervalTrigger(minutes=interval), inside an AndTrigger
\* with the CronTrigger "if not current"
ToggledTrigger(interval, current) == Trigger(interval, ~current)

\* nightmode_handler: whether the handler gets to reschedule_job
Reschedules(r, js, k) ==
    k \in DOMAIN r /\ HasJob(js, k) /\ ~TriggerOverflows(r[k].interval)

\* nightmode_handler: the registry after the handler ran for key k
ToggledReg(r, k) ==
    IF k \in DOMAIN r THEN [r EXCEPT ![k].nightmode = ~r[k].nightmode] ELSE r

\* nightmode_handler: the job table after the handler ran for key k
ToggledJobs(r, js, k) ==
    IF Reschedules(r, js, k)
    THEN RescheduleJob(js, k, ToggledTrigger(r[k].interval, r[k].nightmode))
    ELSE js

\* the "Toggle Night Mode" button issued for the target `button` is pressed:
\* the handler gets nightmode_{user_id}_{url} and parses it.  Neither variant
\* checks who pressed it: auth is only recorded.
nightmode_handler(button, io, auth) ==
    LET k == ParseCallback(CallbackData(button))
        Answer(res) == WithArg(Req("nightmode", k, res, auth), button)
    IN  /\ reg' = ToggledReg(reg, k)
        /\ jobs' = ToggledJobs(reg, jobs, k)
        /\ IF k \notin DOMAIN reg
           THEN /\ store' = store
                /\ lastOp' = Answer("not_found")
           ELSE IF HasJob(jobs, k)
                THEN IF TriggerOverflows(reg[k].interval)
                     THEN \* IntervalTrigger raises after the flag was flipped
                          /\ store' = store
                          /\ lastOp' = Answer("error")
                     ELSE IF io = "ok"
                          THEN /\ store' = reg'
                               /\ lastOp' = Answer("ok")
                          ELSE \* edit_message_text or save_data raised
                               /\ store' = store
                               /\ lastOp' = Answer("error")
                ELSE \* no job: nothing rescheduled, nothing saved, query.answer()
                     /\ store' = store
                     /\ lastOp' = Answer("ok")
        /\ UNCHANGED <<sideVars, variant, scope, fir>>

\* /list: replies the caller's targets; reads the registry only
list_handler(o, auth) ==
    /\ lastOp' = IF ~auth THEN Req("list", NoKey, "denied", FALSE)
                 ELSE IF ListTargets(o) = {} THEN Op("list", NoKey, "empty")
                 ELSE Op("list", NoKey, "listed")
    /\ UNCHANGED <<sideVars, variant, scope, reg, store, jobs, fir>>

\* /documents <url>: fetches the page and sends its resources as a file;
\* reads the registry only
docs_handler(o, u, auth) ==
    /\ lastOp' = IF ~auth THEN Req("docs", NoKey, "denied", FALSE)
                 ELSE IF <<o, u>> \in DOMAIN reg THEN Op("docs", <<o, u>>, "sent")
                 ELSE Op("docs", <<o, u>>, "not_tracked")
    /\ UNCHANGED <<sideVars, variant, scope, reg, store, jobs, fir>>

(***************************************************************************)
(* The firing path.  An execution of check_updates in flight is a record   *)
(* with its position (pc), the digest it fetched and the number of times   *)
(* it invoked send_updates.  Its suspension points are the fetch and the   *)
(* awaits inside send_updates.                                             *)
(***************************************************************************)
Instance(pc, d, c) == [pc |-> pc, digest |-> d, calls |-> c]

RemoveAt(s, n) == SubSeq(s, 1, n - 1) \o SubSeq(s, n + 1, Len(s))

\* a bug: no limit on the running executions of a job
CanSubmit_unlimited(running) == TRUE

\* the executor's submit_job: a due job is run unless max_instances
\* executions of the same job id are still running
CanSubmit(running) == running < MaxInstances

\* whether a trigger whose interval part ticks at local time t fires then:
\* AndTrigger fires at the instants at which all its triggers fire
DueAt(trigger, t) == ~trigger.window \/ CronFires(t)

\* the interval of the job of key k ticks at local time t and the timer
\* finds the job due
job_due(k, t) ==
    /\ HasJob(jobs, k)
    /\ \E j \in JobsOf(jobs, k) : DueAt(j.trigger, t)
    /\ IF CanSubmit(Len(fir[k]))
       THEN /\ fir' = [fir EXCEPT ![k] = Append(@, Instance("fetch", EmptyHash, 0))]
            /\ lastOp' = Tick(k, "started", t)
       ELSE \* the run is skipped with a warning, nothing is queued
            /\ fir' = fir
            /\ lastOp' = Tick(k, "skipped", t)
    /\ UNCHANGED <<sideVars, variant, scope, reg, store, jobs>>

\* a bug: the exception escapes the firing and the scheduler drops the job
check_updates_fetch_failed_unscheduled(k, n) ==
    /\ n \in 1..Len(fir[k])
    /\ fir[k][n].pc = "fetch"
    /\ fir' = [fir EXCEPT ![k] = RemoveAt(@, n)]
    /\ jobs' = WithoutKey(jobs, k)
    /\ lastOp' = Op("fetch", k, "fetch_failed")
    /\ UNCHANGED <<sideVars, variant, scope, reg, store>>

\* a bug: a failed fetch is taken for an empty page and forgets the digest
check_updates_fetch_failed_as_empty(k, n) ==
    /\ n \in 1..Len(fir[k])
    /\ fir[k][n].pc = "fetch"
    /\ fir' = [fir EXCEPT ![k] = RemoveAt(@, n)]
    /\ reg' = IF k \in DOMAIN reg THEN [reg EXCEPT ![k].hash = EmptyHash] ELSE reg
    /\ lastOp' = Op("fetch", k, "fetch_failed")
    /\ UNCHANGED <<sideVars, variant, scope, store, jobs>>

\* check_updates: session.get / resp.read() raised; caught and logged
check_updates_fetch_failed(k, n) ==
    /\ n \in 1..Len(fir[k])
    /\ fir[k][n].pc = "fetch"
    /\ fir' = [fir EXCEPT ![k] = RemoveAt(@, n)]
    /\ lastOp' = Op("fetch", k, "fetch_failed")
    /\ UNCHANGED <<sideVars, variant, scope, reg, store, jobs>>

\* a bug: the first observation is recorded without being a change
Changed_after_first(stored, current) == stored # EmptyHash /\ stored # current

\* a bug: every fetch counts as a change
Changed_always(stored, current) == TRUE

\* stored_hash != current_hash
Changed(stored, current) == stored # current

\* check_updates: the fetch returned content with digest d; the code runs
\* on to the first await inside send_updates, or returns
check_updates_fetched(k, n, d) ==
    /\ n \in 1..Len(fir[k])
    /\ fir[k][n].pc = "fetch"
    /\ IF k \notin DOMAIN reg
       THEN /\ fir' = [fir EXCEPT ![k] = RemoveAt(@, n)]
            /\ lastOp' = Fired("fetch", k, "untracked", d, FALSE, 0)
       ELSE IF Changed(reg[k].hash, d)
            THEN /\ fir' = [fir EXCEPT ![k][n] =
                                Instance("notify", d, fir[k][n].calls + 1)]
                 /\ lastOp' = Fired("fetch", k, "changed", d, FALSE, fir[k][n].calls + 1)
            ELSE /\ fir' = [fir EXCEPT ![k] = RemoveAt(@, n)]
                 /\ lastOp' = Fired("fetch", k, "unchanged", d, FALSE, 0)
    /\ UNCHANGED <<sideVars, variant, scope, reg, store, jobs>>

\* a bug: the commit creates the entry when it is missing (setdefault)
check_updates_notified_setdefault(k, n, sent, saved) ==
    /\ n \in 1..Len(fir[k])
    /\ fir[k][n].pc = "notify"
    /\ fir' = [fir EXCEPT ![k] = RemoveAt(@, n)]
    /\ reg' = Put(reg, k, Entry(1, fir[k][n].digest, FALSE))
    /\ store' = IF saved THEN reg' ELSE store
    /\ lastOp' = Fired("notify", k, IF saved THEN "committed" ELSE "save_failed",
                       fir[k][n].digest, sent, fir[k][n].calls)
    /\ UNCHANGED <<sideVars, variant, scope, jobs>>

\* check_updates after send_updates returned.  send_updates catches every
\* exception itself, so check_updates goes on to the commit whether or not the
\* summary reached the owner (sent); saved says whether save_data succeeded.
check_updates_notified(k, n, sent, saved) ==
    /\ n \in 1..Len(fir[k])
    /\ fir[k][n].pc = "notify"
    /\ fir' = [fir EXCEPT ![k] = RemoveAt(@, n)]
    /\ IF k \notin DOMAIN reg
       THEN \* ['users'][user_key][url] raises KeyError; caught and logged
            /\ UNCHANGED <<reg, store>>
            /\ lastOp' = Fired("notify", k, "discarded", fir[k][n].digest,
                              sent, fir[k][n].calls)
       ELSE LET reg1 == [reg EXCEPT ![k].hash = fir[k][n].digest]
            IN  /\ reg' = reg1
                /\ store' = IF saved THEN reg1 ELSE store
                /\ lastOp' = Fired("notify", k,
                                IF saved THEN "committed" ELSE "save_failed",
                                fir[k][n].digest, sent, fir[k][n].calls)
    /\ UNCHANGED <<sideVars, variant, scope, jobs>>

\* the jobs the scheduler holds when run() has started it: the job store is
\* in memory and nothing adds the loaded targets to it
JobsAtStart(loaded) == EmptyBag

\* the process stops and starts again: __init__, load_data, scheduler.start
run ==
    /\ reg' = store
    /\ jobs' = JobsAtStart(store)
    /\ fir' = [k \in Keys |-> <<>>]
    /\ lastOp' = Op("run", NoKey, "ok")
    /\ UNCHANGED <<sideVars, variant, scope, store>>

Next ==
    \/ \E o \in Owners, u \in UrlsIn(scope), i \in IntervalsIn(scope),
          night \in BOOLEAN, io \in IoIn(scope), auth \in AuthIn(scope) :
          track_handler(o, u, i, night, io, auth)
    \/ \E o \in Owners, u \in UrlsIn(scope), io \in IoIn(scope), auth \in AuthIn(scope) :
          untrack_handler(o, u, io, auth)
    \/ \E button \in ButtonsIn(scope), io \in IoIn(scope), auth \in AuthIn(scope) :
          nightmode_handler(button, io, auth)
    \/ \E o \in ReadersIn(scope), auth \in AuthIn(scope) : list_handler(o, auth)
    \/ \E o \in ReadersIn(scope), u \in UrlsIn(scope), auth \in AuthIn(scope) :
          docs_handler(o, u, auth)
    \/ \E k \in Keys, t \in TimesIn(scope) : job_due(k, t)
    \/ \E k \in Keys, n \in 1..MaxInstances : check_updates_fetch_failed(k, n)
    \/ \E k \in Keys, n \in 1..MaxInstances, d \in Digests :
          check_updates_fetched(k, n, d)
    \/ \E k \in Keys, n \in 1..MaxInstances, sent \in BOOLEAN, saved \in SavedIn(scope) :
          check_updates_notified(k, n, sent, saved)
    \/ run

Spec == Init /\ [][Next]_vars

(***************************************************************************)
(* send_split_messages (b.py) / split_send (f.py): the same loop in both.  *)
(***************************************************************************)
Chars == {"x", "y"}

RECURSIVE TextsOfLen(_)
TextsOfLen(n) ==
    IF n = 0 THEN { <<>> }
    ELSE {Append(t, c) : t \in TextsOfLen(n - 1), c \in Chars}

Texts == UNION {TextsOfLen(n) : n \in 0..MaxTextLen}

Min(a, b) == IF a <= b THEN a ELSE b

\* a bug: the slice takes one character more than the step of the loop
Slice_inclusive(s, from, to) == SubSeq(s, from + 1, Min(to + 1, Len(s)))

\* the Python slice s[from:to] for 0 <= from <= to
Slice(s, from, to) == SubSeq(s, from + 1, Min(to, Len(s)))

RECURSIVE Concat(_)
Concat(ss) == IF ss = <<>> THEN <<>> ELSE Head(ss) \o Concat(Tail(ss))

\* the bot is idle while a text is being sent
InitSplit ==
    /\ variant \in Variants
    /\ scope = "pair"
    /\ reg = EmptyMap
    /\ store = EmptyMap
    /\ jobs = EmptyBag
    /\ fir = [k \in Keys |-> <<>>]
    /\ lastOp = Op("run", NoKey, "ok")
    /\ text \in Texts
    /\ chunks = <<>>
    /\ offset = 0
    /\ raised = FALSE
    /\ notif = <<>>
    /\ updateFile = 0
    /\ race = <<>>

\* one iteration: await self.app.send_message(chat_id, text[i:i+MAX_MESSAGE_LENGTH])
send_split_messages ==
    /\ ~raised
    /\ offset < Len(text)
    /\ chunks' = Append(chunks, Slice(text, offset, offset + MAX_MESSAGE_LENGTH))
    /\ offset' = offset + MAX_MESSAGE_LENGTH
    /\ UNCHANGED <<text, raised, botVars, notifVars, race>>

\* send_message raises: the exception leaves the loop, nothing more is sent
send_message_raised ==
    /\ ~raised
    /\ offset < Len(text)
    /\ raised' = TRUE
    /\ UNCHANGED <<text, chunks, offset, botVars, notifVars, race>>

NextSplit == send_split_messages \/ send_message_raised

SpecSplit == InitSplit /\ [][NextSplit]_vars

(***************************************************************************)
(* send_updates, called by check_updates after it detected a change, for   *)
(* two firings of different targets that run concurrently.  Every await is *)
(* a point where the other firing can run.  The summary of firing p is     *)
(* identified by p; only its length matters to the code.                   *)
(***************************************************************************)
Firings == {1, 2}

\* len(text_content): the header makes it at least 1
SummaryLens == {1, MAX_MESSAGE_LENGTH, MAX_MESSAGE_LENGTH + 1}

\* what happens to one resource: sent; over MAX_FILE_SIZE and skipped; its
\* fetch or its send raised and was logged
ResourceOutcomes == {"sent", "skipped", "raised"}

\* the number of resources of each firing's page
ResourcesOf(p) == IF p = 1 THEN 0..MaxResources ELSE {0}

Sender(len, nres) ==
    [pc |-> "extract", len |-> len, nres |-> nres, tried |-> <<>>,
     files |-> <<>>, texts |-> 0, raisedIn |-> "none", committed |-> FALSE]

InitNotify ==
    /\ variant \in Variants
    /\ scope = "pair"
    /\ reg = EmptyMap
    /\ store = EmptyMap
    /\ jobs = EmptyBag
    /\ fir = [k \in Keys |-> <<>>]
    /\ lastOp = Op("run", NoKey, "ok")
    /\ text = <<>>
    /\ chunks = <<>>
    /\ offset = 0
    /\ raised = FALSE
    /\ notif \in [Firings -> {Sender(l, n) : l \in SummaryLens, n \in 0..MaxResources}]
    /\ \A p \in Firings : notif[p].nres \in ResourcesOf(p)
    /\ updateFile = 0
    /\ race = <<>>

\* b.py writes update.txt always; f.py: if len(text_content) > MAX_MESSAGE_LENGTH
SummaryAsFile(v, len) == v = "b" \/ len > MAX_MESSAGE_LENGTH

\* the messages split_send sends for a text of this length
ChunkCount(len) == (len + MAX_MESSAGE_LENGTH - 1) \div MAX_MESSAGE_LENGTH

\* the outer except of send_updates: log and return to check_updates
Raise(p, where) == [notif EXCEPT ![p].pc = "commit", ![p].raisedIn = where]

\* resources = await self.extract_resources(url); text_content = ...
send_updates_extract(p) ==
    /\ notif[p].pc = "extract"
    /\ notif' = [notif EXCEPT ![p].pc =
                    IF SummaryAsFile(variant, notif[p].len) THEN "write" ELSE "text"]
    /\ UNCHANGED <<updateFile, botVars, splitVars, race>>

\* async with aiofiles.open('update.txt', 'wb') as f: await f.write(...)
send_updates_write(p) ==
    /\ notif[p].pc = "write"
    /\ updateFile' = p
    /\ notif' = [notif EXCEPT ![p].pc = "upload"]
    /\ UNCHANGED <<botVars, splitVars, race>>

\* await self.app.send_document(user_id, 'update.txt'): the file is read and
\* uploaded; a missing file or a failed upload raises
send_updates_upload(p, ok) ==
    /\ notif[p].pc = "upload"
    /\ notif' = IF updateFile = 0 THEN Raise(p, "file_missing")
                ELSE IF ~ok THEN Raise(p, "send_failed")
                ELSE [notif EXCEPT ![p].pc = "remove",
                                   ![p].files = Append(@, updateFile)]
    /\ UNCHANGED <<updateFile, botVars, splitVars, race>>

\* send_document has returned; os.remove('update.txt')
send_updates_remove(p) ==
    /\ notif[p].pc = "remove"
    /\ IF updateFile = 0
       THEN \* FileNotFoundError
            /\ notif' = Raise(p, "remove_missing")
            /\ updateFile' = updateFile
       ELSE /\ notif' = [notif EXCEPT ![p].pc = "media"]
            /\ updateFile' = 0
    /\ UNCHANGED <<botVars, splitVars, race>>

\* f.py: await self.split_send(user_id, text_content)
send_updates_text(p, ok) ==
    /\ notif[p].pc = "text"
    /\ notif' = IF ok
                THEN [notif EXCEPT ![p].pc = "media",
                                   ![p].texts = ChunkCount(notif[p].len)]
                ELSE Raise(p, "send_failed")
    /\ UNCHANGED <<updateFile, botVars, splitVars, race>>

\* a bug: an exception of one resource leaves the loop
AfterResource_abort(outcome) == IF outcome = "raised" THEN "commit" ELSE "media"

\* for resource in resources: try: ... except Exception: logger.error(...)
AfterResource(outcome) == "media"

\* one iteration of the media loop, for the next resource of the list
send_updates_media(p, outcome) ==
    /\ notif[p].pc = "media"
    /\ Len(notif[p].tried) < notif[p].nres
    /\ notif' = [notif EXCEPT
                    ![p].tried = Append(@, [idx |-> Len(@) + 1, outcome |-> outcome]),
                    ![p].pc = AfterResource(outcome)]
    /\ UNCHANGED <<updateFile, botVars, splitVars, race>>

\* the loop is exhausted: send_updates returns
send_updates_return(p) ==
    /\ notif[p].pc = "media"
    /\ Len(notif[p].tried) = notif[p].nres
    /\ notif' = [notif EXCEPT ![p].pc = "commit"]
    /\ UNCHANGED <<updateFile, botVars, splitVars, race>>

\* check_updates after send_updates: ['hash'] = current_hash; save_data()
check_updates_commit(p) ==
    /\ notif[p].pc = "commit"
    /\ notif' = [notif EXCEPT ![p].pc = "done", ![p].committed = TRUE]
    /\ UNCHANGED <<updateFile, botVars, splitVars, race>>

NextNotify ==
    \/ \E p \in Firings : send_updates_extract(p)
    \/ \E p \in Firings : send_updates_write(p)
    \/ \E p \in Firings, ok \in BOOLEAN : send_updates_upload(p, ok)
    \/ \E p \in Firings : send_updates_remove(p)
    \/ \E p \in Firings, ok \in BOOLEAN : send_updates_text(p, ok)
    \/ \E p \in Firings, outcome \in ResourceOutcomes : send_updates_media(p, outcome)
    \/ \E p \in Firings : send_updates_return(p)
    \/ \E p \in Firings : check_updates_commit(p)

SpecNotify == InitNotify /\ [][NextNotify]_vars

(***************************************************************************)
(* A night-mode toggle and a firing of the same target that commits a new  *)
(* digest, both running on the event loop: each await is a point where the *)
(* other can run.  save_data of b.py is three awaits on aiofiles (open,    *)
(* write, close), each run in a thread pool; save_data of f.py is one      *)
(* synchronous call.                                                       *)
(***************************************************************************)
Writers == {"toggle", "firing"}

InitRace ==
    /\ variant \in Variants
    /\ scope = "pair"
    /\ reg = EmptyMap
    /\ store = EmptyMap
    /\ jobs = EmptyBag
    /\ fir = [k \in Keys |-> <<>>]
    /\ lastOp = Op("run", NoKey, "ok")
    /\ text = <<>>
    /\ chunks = <<>>
    /\ offset = 0
    /\ raised = FALSE
    /\ notif = <<>>
    /\ updateFile = 0
    /\ \E i \in 1..MaxMinutes, h \in {EmptyHash} \cup Digests, nm \in BOOLEAN, d \in Digests :
          /\ d # h
          /\ race = [mem |-> Entry(i, h, nm),      \* the entry in self.data
                     disk |-> <<Entry(i, h, nm)>>, \* data.json; <<>> when truncated
                     pc |-> [w \in Writers |-> "start"],
                     buf |-> [w \in Writers |-> <<>>],
                     flag0 |-> nm,                 \* the flag before the toggle
                     digest |-> d]                 \* the digest the firing fetched

\* where save_data starts: b.py awaits aiofiles.open, f.py writes at once
SaveStart(v) == IF v = "b" THEN "open" ELSE "sync"

\* the caller w has reached its call of save_data
CallSave(r, w) ==
    IF SaveStart(variant) = "sync"
    THEN [r EXCEPT !.disk = <<r.mem>>, !.pc[w] = "done"]
    ELSE [r EXCEPT !.pc[w] = "open"]

\* nightmode_handler: ['nightmode'] = not current; reschedule_job; then
\* await query.edit_message_text(...)
nightmode_flip ==
    /\ race.pc["toggle"] = "start"
    /\ race' = [race EXCEPT !.mem.nightmode = ~race.mem.nightmode,
                            !.pc["toggle"] = "edit"]
    /\ UNCHANGED <<botVars, splitVars, notifVars>>

\* edit_message_text has returned: await self.save_data()
nightmode_save ==
    /\ race.pc["toggle"] = "edit"
    /\ race' = CallSave(race, "toggle")
    /\ UNCHANGED <<botVars, splitVars, notifVars>>

\* check_updates: send_updates has returned; ['hash'] = current_hash;
\* await self.save_data()
check_updates_save ==
    /\ race.pc["firing"] = "start"
    /\ race' = CallSave([race EXCEPT !.mem.hash = race.digest], "firing")
    /\ UNCHANGED <<botVars, splitVars, notifVars>>

\* save_data: aiofiles.open('data.json', 'w') truncates the file
save_data_open(w) ==
    /\ race.pc[w] = "open"
    /\ race' = [race EXCEPT !.disk = <<>>, !.pc[w] = "write"]
    /\ UNCHANGED <<botVars, splitVars, notifVars>>

\* save_data: await f.write(json.dumps(self.data)): the registry as it is
\* now goes into the buffer of the file object
save_data_write(w) ==
    /\ race.pc[w] = "write"
    /\ race' = [race EXCEPT !.buf[w] = <<race.mem>>, !.pc[w] = "close"]
    /\ UNCHANGED <<botVars, splitVars, notifVars>>

\* save_data: leaving `async with` closes the file and flushes the buffer
save_data_close(w) ==
    /\ race.pc[w] = "close"
    /\ race' = [race EXCEPT !.disk = race.buf[w], !.pc[w] = "done"]
    /\ UNCHANGED <<botVars, splitVars, notifVars>>

NextRace ==
    \/ nightmode_flip
    \/ nightmode_save
    \/ check_updates_save
    \/ \E w \in Writers : save_data_open(w)
    \/ \E w \in Writers : save_data_write(w)
    \/ \E w \in Writers : save_data_close(w)

SpecRace == InitRace /\ [][NextRace]_vars

(***************************************************************************)
(* Properties.  lastOp describes the step that led to the current state,   *)
(* so "immediately after operation X" is a predicate on lastOp.            *)
(***************************************************************************)
TrackScheduled == lastOp.op = "track" /\ lastOp.res \in {"ok", "error"}
\* the last step was a track request that got as far as storing the entry
TrackStored == lastOp.op = "track" /\ lastOp.res \in {"ok", "error", "rejected"}

C2_AtMostOneInFlight ==
    /\ [](\A k \in Keys : Len(fir[k]) <= 1)
    /\ [][\A k \in Keys :
            (HasJob(jobs, k) /\ Len(fir[k]) >= 1 /\ lastOp'.op = "job_due" /\ lastOp'.key = k)
                => /\ lastOp'.res = "skipped"
                   /\ fir' = fir
                   /\ reg' = reg
                   /\ store' = store]_vars

\* a tick was skipped while the earlier firing, which had detected a change
\* of a target with a stored digest, was suspended in its sends
C2_Witness ==
    /\ lastOp.op = "job_due" /\ lastOp.res = "skipped"
    /\ Len(fir[lastOp.key]) = 1
    /\ fir[lastOp.key][1].pc = "notify"
    /\ lastOp.key \in DOMAIN reg
    /\ reg[lastOp.key].hash # EmptyHash

\* C3 (as claimed): a firing commits the new digest only if the notification
\* succeeded.
C3_CommitOnlyAfterDelivery ==
    (lastOp.op = "notify" /\ lastOp.res \in {"committed", "save_failed"})
        => lastOp.sent

\* C4: a failed fetch leaves the registry and the store unchanged, invokes
\* no notification and sends nothing.
C4_FetchFailureChangesNothing ==
    [][(lastOp'.op = "fetch" /\ lastOp'.res = "fetch_failed")
          => /\ reg' = reg
             /\ store' = store
             /\ jobs' = jobs
             /\ lastOp'.calls = 0
             /\ ~lastOp'.sent]_vars

\* the fetch failed for a target that had a digest to lose
C4_Witness ==
    /\ lastOp.op = "fetch" /\ lastOp.res = "fetch_failed"
    /\ lastOp.key \in DOMAIN reg
    /\ reg[lastOp.key].hash # EmptyHash

\* C5: track leaves the target with lastDigest = ""; a firing that fetches
\* digest d for a target whose lastDigest is "" invokes send_updates, exactly
\* once, and when it ends with the target still tracked lastDigest = d.
C5_FirstObservationIsAChange ==
    /\ [](TrackStored
            => lastOp.key \in DOMAIN reg /\ reg[lastOp.key].hash = EmptyHash)
    /\ [](TrackScheduled => HasJob(jobs, lastOp.key))
    /\ [][\A k \in Keys :
            (/\ lastOp'.op = "fetch" /\ lastOp'.key = k /\ lastOp'.res # "fetch_failed"
             /\ k \in DOMAIN reg /\ reg[k].hash = EmptyHash)
                => /\ lastOp'.res = "changed"
                   /\ lastOp'.calls = 1
                   /\ Len(fir'[k]) = 1
                   /\ fir'[k][1] = Instance("notify", lastOp'.digest, 1)]_vars
    /\ [][\A k \in Keys :
            (/\ lastOp'.op = "notify" /\ lastOp'.key = k
             /\ k \in DOMAIN reg /\ Len(fir[k]) = 1)
                => /\ lastOp'.calls = 1
                   /\ lastOp'.digest = fir[k][1].digest
                   /\ reg'[k].hash = fir[k][1].digest
                   /\ fir'[k] = <<>>]_vars

\* the first firing of a target has ended and committed the fetched digest
C5_Witness ==
    /\ lastOp.op = "notify" /\ lastOp.res = "committed"
    /\ lastOp.calls = 1
    /\ lastOp.digest \in Digests
    /\ reg[lastOp.key].hash = lastOp.digest
    /\ store = reg

\* C6: a firing that fetches the digest already stored invokes no
\* notification, ends, and leaves the registry and the store unchanged.
C6_SameDigestIsSilent ==
    [][\A k \in Keys :
          (/\ lastOp'.op = "fetch" /\ lastOp'.key = k /\ lastOp'.res # "fetch_failed"
           /\ k \in DOMAIN reg /\ reg[k].hash = lastOp'.digest)
              => /\ lastOp'.res = "unchanged"
                 /\ lastOp'.calls = 0
                 /\ ~lastOp'.sent
                 /\ fir'[k] = <<>>
                 /\ reg' = reg
                 /\ store' = store]_vars

\* a firing fetched the digest an earlier firing had committed
C6_Witness ==
    /\ lastOp.op = "fetch" /\ lastOp.res = "unchanged"
    /\ lastOp.digest \in Digests
    /\ reg[lastOp.key].hash = lastOp.digest

\* C7: a step of a firing whose target has been untracked in the meantime
\* ends the firing, leaves the jobs, the registry and the store as they were
\* (no entry is created or written), and the owner's listing does not hold
\* the url.
C7_UntrackedFiringCommitsNothing ==
    [][\A k \in Keys :
          (/\ lastOp'.op \in {"fetch", "notify"} /\ lastOp'.key = k
           /\ k \notin DOMAIN reg /\ Len(fir[k]) = 1)
              => /\ lastOp'.res \in {"fetch_failed", "untracked", "discarded"}
                 /\ fir'[k] = <<>>
                 /\ reg' = reg
                 /\ store' = store
                 /\ jobs' = jobs
                 /\ k[2] \notin ListTargets(k[1])']_vars

\* the firing had detected a change and was suspended in send_updates when
\* the target was untracked; its commit was discarded
C7_Witness ==
    /\ lastOp.op = "notify" /\ lastOp.res = "discarded"
    /\ lastOp.digest \in Digests
    /\ lastOp.key \notin DOMAIN reg
    /\ lastOp.key[2] \notin ListTargets(lastOp.key[1])

\* C8: every job the scheduler holds has a key that is in the registry.
C8_NoOrphanedJob ==
    \A j \in BagToSet(jobs) : j.key \in DOMAIN reg

\* an untrack has just removed one target while the job of another is held
C8_Witness ==
    /\ lastOp.op = "untrack" /\ lastOp.res = "ok"
    /\ lastOp.key \notin DOMAIN reg
    /\ jobs # EmptyBag

\* C9 (as claimed): an untrack request for a key that is in the registry
\* leaves the key out of the registry and without a job.
C9_UntrackRemovesTargetAndJob ==
    [][(lastOp'.op = "untrack" /\ lastOp'.key \in DOMAIN reg)
          => /\ lastOp'.key \notin DOMAIN reg'
             /\ ~HasJob(jobs', lastOp'.key)]_vars

\* C10 (as claimed): after process start every target of the loaded registry
\* has exactly one job, built from its stored interval and night mode.
C10_JobsRebuiltAtStart ==
    lastOp.op = "run"
        => \A k \in DOMAIN reg :
              /\ JobCount(jobs, k) = 1
              /\ JobsOf(jobs, k) = {Job(k, Trigger(reg[k].interval, reg[k].nightmode))}

\* a firing that ended in an exception: the fetch or save_data raised
FiringFailed ==
    lastOp.op \in {"fetch", "notify"} /\ lastOp.res \in {"fetch_failed", "save_failed"}

\* C11: an exception raised inside a firing is contained: no step of a firing
\* changes the job table or another key's firings in flight, and after a
\* failed firing of a key that has a job the next tick of that job is run,
\* not skipped.
C11_FiringFailureIsContained ==
    /\ [](FiringFailed /\ HasJob(jobs, lastOp.key)
            => /\ CanSubmit(Len(fir[lastOp.key]))
               /\ \A t \in TimesIn(scope) :
                     (\E j \in JobsOf(jobs, lastOp.key) : DueAt(j.trigger, t))
                        => ENABLED job_due(lastOp.key, t))
    /\ [][lastOp'.op \in {"fetch", "notify"}
            => /\ jobs' = jobs
               /\ \A k \in Keys \ {lastOp'.key} : fir'[k] = fir[k]]_vars

\* a fetch of one key failed while its job stays and another key's firing
\* is in flight
C11_Witness ==
    /\ FiringFailed
    /\ HasJob(jobs, lastOp.key)
    /\ \E k \in Keys \ {lastOp.key} : HasJob(jobs, k) /\ Len(fir[k]) > 0

\* seconds since local midnight
SecondOfDay(t) == (t[1] * 60 + t[2]) * 60 + t[3]

\* the allowed window 06:00-22:00
InWindow(t) ==
    /\ SecondOfDay(t) >= SecondOfDay(<<WindowFirstHour, 0, 0>>)
    /\ SecondOfDay(t) <= SecondOfDay(<<WindowLastHour, 0, 0>>)

\* C12: while the nightmode flag of a target is set, no firing of the target
\* starts at a local time outside 06:00-22:00.
C12_NoFiringOutsideWindow ==
    (/\ lastOp.op = "job_due"
     /\ lastOp.res = "started"
     /\ lastOp.key \in DOMAIN reg
     /\ reg[lastOp.key].nightmode)
        => InWindow(lastOp.time)

\* C13: while the nightmode flag of a target is set, its job fires at every
\* tick of its interval that falls inside the window 06:00-22:00, whatever
\* the minute and second of the tick.
C13_NightJobFiresInsideWindow ==
    \A k \in DOMAIN reg, t \in TimesIn(scope) :
        (HasJob(jobs, k) /\ reg[k].nightmode /\ InWindow(t))
            => ENABLED job_due(k, t)

\* the target and the triggers of its jobs after two presses of the button
TwiceToggledReg(k) == ToggledReg(ToggledReg(reg, k), k)
TwiceToggledJobs(k) ==
    ToggledJobs(ToggledReg(reg, k), ToggledJobs(reg, jobs, k), k)

\* C14: for a tracked target with a live job, two consecutive toggles give
\* back the original nightmode flag and a job with the original interval and
\* the original presence or absence of the hour window.
C14_TwoTogglesRestore ==
    \A k \in DOMAIN reg :
        HasJob(jobs, k)
            => /\ TwiceToggledReg(k)[k] = reg[k]
               /\ JobsOf(TwiceToggledJobs(k), k) = JobsOf(jobs, k)
               /\ JobCount(TwiceToggledJobs(k), k) = JobCount(jobs, k)

\* a toggle has just put the hour window on a live job
C14_Witness ==
    /\ lastOp.op = "nightmode"
    /\ lastOp.res = "ok"
    /\ lastOp.key \in DOMAIN reg
    /\ reg[lastOp.key].nightmode
    /\ \E j \in JobsOf(jobs, lastOp.key) : j.trigger.window
    /\ TwiceToggledReg(lastOp.key) = reg

\* the operations of the command layer
CommandOps == {"track", "untrack", "nightmode", "list", "docs"}

\* C15: no operation of the command layer changes the hash of a target that
\* is in the registry before and after it: only check_updates does.
C15_HashChangedOnlyByFiring ==
    [][lastOp'.op \in CommandOps
          => \A k \in DOMAIN reg \cap DOMAIN reg' : reg'[k].hash = reg[k].hash]_vars

\* C16: every target in the registry has an interval greater than 0.
C16_IntervalsArePositive ==
    \A k \in DOMAIN reg : reg[k].interval > 0

\* the schemes the registry is specified to hold
WebSchemes == { <<"http">>, <<"https">> }

\* C17: every url key in the registry has the scheme http or https.
C17_KeysHaveWebScheme ==
    \A k \in DOMAIN reg : Scheme(k[2]) \in WebSchemes

\* the loop of send_split_messages ran to its end
SplitReturned == ~raised /\ offset >= Len(text)

\* C18: every chunk sent is non-empty and no longer than MAX_MESSAGE_LENGTH;
\* when the loop has returned, the chunks concatenated in send order are the
\* text, and a non-empty text has been sent in at least one chunk.
C18_ChunksRebuildText ==
    /\ \A c \in 1..Len(chunks) :
          Len(chunks[c]) >= 1 /\ Len(chunks[c]) <= MAX_MESSAGE_LENGTH
    /\ SplitReturned
          => /\ Concat(chunks) = text
             /\ text # <<>> => Len(chunks) >= 1

\* a text was sent in several chunks, the last one shorter than the limit
C18_Witness ==
    /\ SplitReturned
    /\ Len(chunks) >= 2
    /\ Len(chunks[Len(chunks)]) < MAX_MESSAGE_LENGTH
    /\ Concat(chunks) = text

\* the operations that write to the registry, and the reports of one that
\* ran to its end without an exception
MutatingOps == {"track", "untrack", "nightmode", "notify"}
CompletedRes == {"ok", "committed"}

\* C19: when an operation that changed the in-memory registry has completed,
\* the store holds exactly the in-memory registry.
C19_StoreFollowsRegistry ==
    [][(/\ lastOp'.op \in MutatingOps
        /\ lastOp'.res \in CompletedRes
        /\ reg' # reg)
          => store' = reg']_vars

\* C20: a track, untrack or night-mode request of a caller who is not
\* authorized leaves the registry, the jobs and the store as they were.
C20_UnauthorizedChangesNothing ==
    [][(lastOp'.op \in {"track", "untrack", "nightmode"} /\ ~lastOp'.auth)
          => UNCHANGED <<reg, jobs, store>>]_vars

\* C21: for every tracked target that has a job, the job's trigger carries
\* the hour window if and only if the target's nightmode flag is set.
C21_FlagMatchesTrigger ==
    \A k \in DOMAIN reg :
        \A j \in JobsOf(jobs, k) : j.trigger.window = reg[k].nightmode

\* C22: a toggle for a key that has a registry entry but no job leaves the
\* entry as it was and reports "job not found".
C22_ToggleWithoutJobIsNoOp ==
    [][(/\ lastOp'.op = "nightmode"
        /\ lastOp'.key \in DOMAIN reg
        /\ ~HasJob(jobs, lastOp'.key))
          => /\ reg' = reg
             /\ lastOp'.res = "job_not_found"]_vars

\* C27: /track with url argument u followed by /untrack of the same owner
\* with the same argument u leaves no registry entry and no job for the
\* target that the track created.
C27_TrackUntrackRoundTrip ==
    [][(/\ lastOp.op = "track"
        /\ lastOp.res = "ok"
        /\ lastOp'.op = "untrack"
        /\ lastOp'.auth
        /\ lastOp'.key = lastOp.arg)
          => /\ lastOp.key \notin DOMAIN reg'
             /\ ~HasJob(jobs', lastOp.key)]_vars

\* C28: for every tracked target, parsing the callback data of its button
\* gives back the target's owner and url.
C28_ButtonAddressesItsTarget ==
    \A k \in DOMAIN reg : ParseCallback(CallbackData(k)) = k

\* the except clause at the end of an operation: the handlers reply an error
\* to the caller, check_updates writes a log line and returns normally
Surfaces(op) == op \in {"track", "untrack", "nightmode"}

\* the last operation ended in an exception that save_data can have raised
\* (the "error" of a handler is its reply or its save_data raising)
SaveFailed ==
    \/ lastOp.op = "notify" /\ lastOp.res = "save_failed"
    \/ lastOp.op \in {"track", "untrack", "nightmode"} /\ lastOp.res = "error"

\* C25: a failure of save_data inside a mutating operation is reported to
\* the invoker of the operation as a failure of it.
C25_SaveFailureIsSurfaced ==
    (lastOp.op \in MutatingOps /\ SaveFailed) => Surfaces(lastOp.op)

\* send_updates of firing p got past the delivery of the summary
SummaryDelivered(p) ==
    notif[p].pc \in {"media", "commit", "done"} /\ notif[p].raisedIn = "none"

\* C23: a summary longer than MAX_MESSAGE_LENGTH is delivered as one file
\* and no text message, any other as text messages and no file.
C23_SummaryByLength ==
    \A p \in DOMAIN notif :
        SummaryDelivered(p)
            => IF notif[p].len > MAX_MESSAGE_LENGTH
               THEN Len(notif[p].files) = 1 /\ notif[p].texts = 0
               ELSE Len(notif[p].files) = 0 /\ notif[p].texts >= 1

\* C24: the resources are attempted in list order whatever the outcome of
\* the earlier ones: when the media loop has been left every resource was
\* attempted, and the firing goes on to commit the digest.
C24_EveryResourceAttempted ==
    /\ \A p \in DOMAIN notif :
          /\ \A i \in 1..Len(notif[p].tried) : notif[p].tried[i].idx = i
          /\ (notif[p].pc \in {"commit", "done"} /\ notif[p].raisedIn = "none")
                => Len(notif[p].tried) = notif[p].nres
          /\ notif[p].pc = "done" => notif[p].committed
    /\ [][\A p \in DOMAIN notif :
            (notif[p].pc = "media" /\ Len(notif[p].tried) < notif[p].nres)
                => notif'[p].pc = "media"]_vars

\* a firing has committed after its first resource raised, its second was
\* over the size limit and both were attempted
C24_Witness ==
    \E p \in DOMAIN notif :
        /\ notif[p].pc = "done"
        /\ notif[p].committed
        /\ notif[p].nres = 2
        /\ Len(notif[p].tried) = 2
        /\ notif[p].tried[1].outcome = "raised"
        /\ notif[p].tried[2].outcome = "skipped"

\* C29: the owner of each firing receives that firing's own summary in the
\* file, and no firing's summary send fails because the file is missing.
C29_SummaryFilesDoNotInterfere ==
    \A p \in DOMAIN notif :
        /\ \A i \in 1..Len(notif[p].files) : notif[p].files[i] = p
        /\ notif[p].raisedIn \notin {"file_missing", "remove_missing"}

\* the toggle and the firing have both finished
BothFinished == \A w \in Writers : race.pc[w] = "done"

\* C26: after a toggle and a concurrently completing firing of the same key
\* have both finished, the entry in memory and in the store has the toggled
\* nightmode flag and the new digest, whatever the interleaving.
C26_NoLostUpdate ==
    (race # <<>> /\ BothFinished)
        => /\ race.mem.nightmode = ~race.flag0
           /\ race.mem.hash = race.digest
           /\ race.disk = <<race.mem>>

====
